---- MODULE Spec2Model ----
(***************************************************************************)
(* Model of the buy-alert bot: swap-event ingestion and normalisation      *)
(* (sui_api.py), the boost payment flow and the alert dispatcher (bot.py), *)
(* over the tables declared in database.py.                                *)
(*                                                                         *)
(* The SQLAlchemy session and query builder are modelled by the statement  *)
(* each call site expresses: "async with get_session() as db" yields a     *)
(* session, select(T).where(c) returns the rows of T that satisfy c in     *)
(* table order, db.add + db.commit appends one row.  (As written, bot.py    *)
(* calls select without importing it and enters the coroutine get_session  *)
(* as a context manager; the model follows the statements' evident         *)
(* meaning, so that the logic built on them can be examined.)              *)
(*                                                                         *)
(* Time is counted in hours.  Money is exact fixed point: SUI amounts in   *)
(* 1/100 SUI (the event's MIST amount is carried in units of 10^7 MIST),   *)
(* the SUI/USD rate in cents, USD amounts in 1/10000 USD.                  *)
(***************************************************************************)
EXTENDS Integers, Sequences, FiniteSets, TLC

\* ---------------------------------------------------------------- bounds
MaxTime == 8
MaxBoosts == 2
MaxSessions == 2
MaxMonitors == 2
MaxPayments == 1
MaxEvents == 2
MaxCalls == 3
MaxFaults == 2
MaxMessages == 3
MaxCycles == 2
MaxUsd == 30

\* ------------------------------------------------------ program constants
MIN_TRENDING_BUY == 200
MAX_EMOJIS == 50
LeaderboardSize == 10
PaymentWindowMinutes == 30
CacheTtlMinutes == 5
WindowMinutes == 30
\* 1/100 SUI times cents per SUI gives 1/10000 USD
UsdScale == 100 * 100

SUI == "0x2::sui::SUI"
None == "None"

\* Two of the tiers of BOOST_OPTIONS: key |-> (duration in hours, price in SUI)
BOOST_OPTIONS ==
    [k \in {"4h", "8h"} |->
        IF k = "4h" THEN [duration |-> 4, price |-> 15]
                    ELSE [duration |-> 8, price |-> 20]]

Tokens == {"0xA", "0xB"}
Users == {1, 2}
TxHashes == {"tx1", "tx2"}

\* ------------------------------------------------------------------ state
VARIABLES
    now,            \* datetime.utcnow(), in hours
    boosts,         \* table "boosts": sequence of rows in insertion order
    group_configs,  \* table "group_configs": sequence of rows
    boost_sessions, \* bot.boost_sessions: user id -> session object id (0: absent)
    sessions,       \* the session dicts, by object id
    monitors,       \* running monitor_boost_payment tasks, by task id
    payments,       \* transactions to BOOST_WALLET seen by the RPC node
    _token_cache,   \* SuiAPI._token_cache: address -> {"data", "timestamp"}
    received,       \* number of stream messages handled so far
    last,           \* what the handling of the last stream message did
    alerts,         \* bot.send_message calls for buy alerts: <<destination, tx_hash>> -> count
    calls,          \* get_token_data coroutines started by concurrent tasks, by call id
    awaiting,       \* the destination of the send_message the receive loop is suspended in
    ws,             \* start_buy_monitoring: its position, connection and messages in hand
    lb,             \* update_leaderboard: its position, last ranking and the channel's pins
    fmt,            \* a format_buy_alert call: its arguments and what it gave
    stop            \* shutdown(): the statement it is at, "running" before it is called

vars == <<now, boosts, group_configs, boost_sessions, sessions, monitors,
          payments, _token_cache, received, last, alerts, calls, awaiting,
          ws, lb, fmt, stop>>

Assets == Tokens \cup {SUI}
Durations == {BOOST_OPTIONS[k].duration : k \in DOMAIN BOOST_OPTIONS}

Min(a, b) == IF a <= b THEN a ELSE b

\* ------------------------------------------------- table "group_configs"
\* Rows of GroupConfig (the columns the dispatcher reads); min_buy and
\* buy_step are Numeric columns, held here in 1/10000 USD.
ConfigRow(id, group, token, minBuy, step, active) ==
    [id |-> id, group_id |-> group, token_address |-> token,
     min_buy |-> minBuy * UsdScale, buy_step |-> step * UsdScale,
     is_active |-> active]

\* The tables the configuration flow may have left behind.  In the first two
\* "0xB" is tracked by no group.
ConfigTables ==
    { << ConfigRow(1, 101, "0xA", 10, 5, TRUE),
         ConfigRow(2, 102, "0xA", 1, 5, FALSE) >>,
      << ConfigRow(3, 103, "0xA", 1, 0, TRUE),
         ConfigRow(1, 101, "0xA", 10, 5, TRUE) >>,
      << ConfigRow(1, 101, "0xA", 10, 5, TRUE),
         ConfigRow(4, 104, "0xB", 1, 5, TRUE) >> }

ConfigIds == {1, 2, 3, 4}
TrendingDest == 0
\* no destination
NoDest == 0 - 1
Dests == ConfigIds \cup {TrendingDest}

\* select(GroupConfig).where(GroupConfig.token_address == token), table order
RECURSIVE SelectConfigs(_, _)
SelectConfigs(table, token) ==
    IF table = << >> THEN << >>
    ELSE IF Head(table).token_address = token
         THEN << Head(table) >> \o SelectConfigs(Tail(table), token)
         ELSE SelectConfigs(Tail(table), token)

\* -------------------------------------------------------- table "boosts"
\* end of the boost period of a row
EndTime(b) == b.start_time + b.duration_hours

\* check_token_boost: a row of the token with start_time + duration > utcnow()
check_token_boost(token) ==
    \E i \in 1..Len(boosts) :
        /\ boosts[i].token_address = token
        /\ EndTime(boosts[i]) > now

\* get_active_boosts: select(Boost).where(Boost.is_active == True), the
\* stored column
get_active_boosts == SelectSeq(boosts, LAMBDA b : b.is_active)

\* ------------------------------------------------------- Event Normalizer
\* event["params"] of a "0x2::dex::SwapEvent" message: a swap between two
\* different assets.  amount_ok is FALSE when an "amount" string is not a
\* number (amount_in is then 0 here).  amount_out is in base units of the
\* asset received.  The amounts of a swap that is no buy are never read, so
\* one such swap per pair of assets and digest is enough.
AmountsIn == {100, 999, 1000, 20000}
AmountsOut == {500}
SuiRates == {0, 100}

RawEvents ==
    { e \in [token_in : Assets, token_out : Assets, amount_in : AmountsIn \cup {0},
             amount_out : AmountsOut, amount_ok : BOOLEAN, tx_digest : TxHashes] :
        /\ e.token_in # e.token_out
        /\ e.amount_ok <=> e.amount_in # 0
        /\ e.token_in # SUI => e.amount_in = 100 }

NoEvent == [token_in |-> None, token_out |-> None, amount_out |-> 0,
            amount_ok |-> TRUE, tx_digest |-> None]

NoBuy == [token_address |-> None, amount_sui |-> 0, amount_usd |-> 0,
          token_amount |-> 0, mcap |-> 0, sui_price |-> 0, tx_hash |-> None]

\* what the market-data endpoint returns for an address on status 200
TokenData(address) ==
    [address |-> address, decimals |-> IF address = "0xB" THEN 1 ELSE 0,
     mcap |-> 50000]

\* 10**n
RECURSIVE Pow10(_)
Pow10(n) == IF n = 0 THEN 1 ELSE 10 * Pow10(n - 1)

\* get_token_data from "Fetch from API" on: a 200 answer is stored under the
\* address with the current time and returned, any other outcome gives None
FetchTokenData(cache, address, resp) ==
    IF resp = "200"
    THEN [token |-> address,
          cache |-> [a \in DOMAIN cache \cup {address} |->
                       IF a = address
                       THEN [data |-> TokenData(address), timestamp |-> now]
                       ELSE cache[a]],
          fetched |-> TRUE]
    ELSE [token |-> None, cache |-> cache, fetched |-> TRUE]

\* SuiAPI.get_token_data(address) against an endpoint answering resp.
\* A cached address reads cached.timestamp on the cached dict, which raises
\* AttributeError; the handler logs it and returns None.
get_token_data(cache, address, resp) ==
    IF address \in DOMAIN cache
    THEN [token |-> None, cache |-> cache, fetched |-> FALSE]
    ELSE FetchTokenData(cache, address, resp)

\* mutants of the direction test: no test at all, and the test on the wrong
\* side of the swap
IsBuySwap_NoTest(ev) == TRUE
IsBuySwap_Reversed(ev) == ev.token_out = SUI

\* "Only process SUI -> Token swaps (buys)": the direction test of
\* _process_swap_event
IsBuySwap(ev) == ev.token_in = SUI

\* SuiAPI._process_swap_event(event_data); rate1 and rate2 are the answers of
\* the two get_sui_price() calls (0 when the call fails).
_process_swap_event(ev, resp, rate1, rate2) ==
    IF ~IsBuySwap(ev)
    THEN [buy |-> NoBuy, cache |-> _token_cache]
    ELSE LET r == get_token_data(_token_cache, ev.token_out, resp) IN
         IF r.token = None \/ ~ev.amount_ok
         THEN [buy |-> NoBuy, cache |-> r.cache]
         ELSE [buy |-> [token_address |-> ev.token_out,
                        amount_sui |-> ev.amount_in,
                        amount_usd |-> ev.amount_in * rate1,
                        token_amount |->
                            ev.amount_out \div Pow10(TokenData(ev.token_out).decimals),
                        mcap |-> TokenData(ev.token_out).mcap,
                        sui_price |-> rate2,
                        tx_hash |-> ev.tx_digest],
               cache |-> r.cache]

\* ------------------------------------------------------- Alert Dispatcher
\* int(Decimal(a) / Decimal(b)) for b # 0: truncation toward zero
TruncDiv(a, b) == IF b > 0 THEN a \div b ELSE 0 - (a \div (0 - b))

\* (token_config.emoji + " ") * emoji_count if emoji_count > 0 else "": the
\* number of emojis of the emoji line
EmojiLine(emoji_count) == IF emoji_count > 0 THEN emoji_count ELSE 0

\* mutant of format_buy_alert: the count not capped by MAX_EMOJIS
format_buy_alert_Uncapped(buy, config) ==
    IF config.buy_step = 0
    THEN [ok |-> FALSE, emoji_count |-> 0, emojis |-> 0]
    ELSE [ok |-> TRUE,
          emoji_count |-> TruncDiv(buy.amount_usd, config.buy_step),
          emojis |-> EmojiLine(TruncDiv(buy.amount_usd, config.buy_step))]

\* format_buy_alert: the Decimal division raises for buy_step = 0, which the
\* function turns into BuyBotException
format_buy_alert(buy, config) ==
    IF config.buy_step = 0
    THEN [ok |-> FALSE, emoji_count |-> 0, emojis |-> 0]
    ELSE [ok |-> TRUE,
          emoji_count |-> Min(TruncDiv(buy.amount_usd, config.buy_step), MAX_EMOJIS),
          emojis |-> EmojiLine(Min(TruncDiv(buy.amount_usd, config.buy_step),
                                   MAX_EMOJIS))]

\* the threshold test of the group loop
GroupQualifies(buy, config) == buy.amount_usd >= config.min_buy

\* the test guarding the trending send
TrendingQualifies(buy, is_boosted) ==
    buy.amount_usd >= MIN_TRENDING_BUY * UsdScale \/ is_boosted

\* "for config in configs": the ids of the rows send_message was called for,
\* and whether format_buy_alert raised out of the loop
RECURSIVE GroupLoop(_, _, _)
GroupLoop(buy, configs, sentTo) ==
    IF configs = << >>
    THEN [attempts |-> sentTo, aborted |-> FALSE]
    ELSE LET config == Head(configs) IN
         IF GroupQualifies(buy, config)
         THEN IF format_buy_alert(buy, config).ok
              THEN GroupLoop(buy, Tail(configs), Append(sentTo, config.id))
              ELSE [attempts |-> sentTo, aborted |-> TRUE]
         ELSE GroupLoop(buy, Tail(configs), sentTo)

\* process_buy_event(buy_data); sendFails: the destinations whose
\* send_message raises TelegramAPIError
process_buy_event(buy, sendFails) ==
    LET configs == SelectConfigs(group_configs, buy.token_address)
        is_boosted == check_token_boost(buy.token_address)
        loop == GroupLoop(buy, configs, << >>)
        base == [is_boosted |-> is_boosted,
                 attempts |-> loop.attempts, trending |-> FALSE, error |-> None]
    IN  IF loop.aborted
        THEN [base EXCEPT !.error = "BuyBotException"]
        ELSE IF ~TrendingQualifies(buy, is_boosted)
        THEN base
        ELSE IF configs = << >>
        THEN [base EXCEPT !.error = "IndexError"]
        ELSE IF ~format_buy_alert(buy, configs[1]).ok
        THEN [base EXCEPT !.error = "BuyBotException"]
        ELSE [base EXCEPT !.trending = TRUE,
                          !.error = IF TrendingDest \in sendFails
                                    THEN "TelegramAPIError" ELSE None]

\* -------------------------------------------------------------- Boost flow
Prices == {BOOST_OPTIONS[k].price : k \in DOMAIN BOOST_OPTIONS}

\* the session of a user, or None-valued defaults before it is filled in
NewSession == [step |-> "token", token |-> None, duration |-> 0, price |-> 0]

\* Boost(...) as inserted by monitor_boost_payment; is_active takes the
\* column's server_default
BoostRow(token, duration, paid, user) ==
    [id |-> Len(boosts) + 1, token_address |-> token, user_id |-> user,
     duration_hours |-> duration, paid_amount |-> paid, start_time |-> now,
     is_active |-> TRUE]

\* the rows db.add(boost) + db.commit() leave in the table
InsertBoost(row) == Append(boosts, row)

\* mutant of verify_payment: the amount not compared
verify_payment_AnyAmount(amount, start_time) ==
    \E p \in payments : p.time >= start_time

\* SuiAPI.verify_payment(wallet, amount, start_time): some successful Pay
\* transaction of exactly that amount among those listed since start_time
verify_payment(amount, start_time) ==
    \E p \in payments : p.amount = amount /\ p.time >= start_time

\* the loop condition of monitor_boost_payment
WithinPaymentWindow(m) == (now - m.start_time) * 60 < PaymentWindowMinutes

\* a monitor task that has returned; "created" says whether it committed a
\* Boost row, "sent" which notices it called bot.send_message for
Finished == [user_id |-> 0, session |-> 0, token_address |-> None,
             expected_amount |-> 0, start_time |-> 0, pc |-> "done",
             created |-> FALSE, sent |-> {}]

\* the send_message calls of monitor_boost_payment after the commit, in
\* order: the confirmation to the user, the announcement to the trending
\* channel once the token data is there, and the error notice of the handler
\* when a send raises, get_token_data gives None (token_data.symbol) or
\* "del boost_sessions[user_id]" finds no session
NoticesAfterCommit(userSendOk, token, trendSendOk, hasSession) ==
    IF ~userSendOk THEN {"confirmed", "error"}
    ELSE IF token = None THEN {"confirmed", "error"}
    ELSE IF ~trendSendOk \/ ~hasSession THEN {"confirmed", "announcement", "error"}
    ELSE {"confirmed", "announcement"}

\* the send_message calls of monitor_boost_payment after the loop has run
\* out: the timeout notice and, when that send raises, the error notice
NoticesAfterTimeout(sendOk) ==
    IF sendOk THEN {"timeout"} ELSE {"timeout", "error"}

\* /boost in a private chat
cmd_boost(u) ==
    /\ Len(sessions) < MaxSessions
    /\ sessions' = Append(sessions, NewSession)
    /\ boost_sessions' = [boost_sessions EXCEPT ![u] = Len(sessions) + 1]
    /\ UNCHANGED <<now, boosts, group_configs, monitors, payments,
                   _token_cache, received, last, alerts, calls, awaiting,
                   ws, lb, fmt, stop>>

\* the user answers the "enter the contract address" prompt of cmd_boost
boost_token_input(u, t) ==
    /\ boost_sessions[u] # 0
    /\ sessions[boost_sessions[u]].step = "token"
    /\ sessions' = [sessions EXCEPT ![boost_sessions[u]] =
                        [@ EXCEPT !.token = t, !.step = "duration"]]
    /\ UNCHANGED <<now, boosts, group_configs, boost_sessions, monitors,
                   payments, _token_cache, received, last, alerts, calls, awaiting,
                   ws, lb, fmt, stop>>

\* handle_boost_callback, callback data "boost_cancel"
handle_boost_cancel(u) ==
    /\ boost_sessions[u] # 0
    /\ boost_sessions' = [boost_sessions EXCEPT ![u] = 0]
    /\ UNCHANGED <<now, boosts, group_configs, sessions, monitors, payments,
                   _token_cache, received, last, alerts, calls, awaiting,
                   ws, lb, fmt, stop>>

\* handle_boost_callback, callback data "boost_<key>": the session dict is
\* updated in place and a monitor task is started on it.  A session without
\* "token" raises KeyError after the update, before the task is created.
handle_boost_select(u, k) ==
    /\ boost_sessions[u] # 0
    /\ Len(monitors) < MaxMonitors
    /\ LET sid == boost_sessions[u]
           session == [sessions[sid] EXCEPT !.duration = BOOST_OPTIONS[k].duration,
                                            !.price = BOOST_OPTIONS[k].price,
                                            !.step = "payment"]
       IN  /\ sessions' = [sessions EXCEPT ![sid] = session]
           /\ monitors' =
                IF session.token = None THEN monitors
                ELSE Append(monitors,
                            [user_id |-> u, session |-> sid,
                             token_address |-> session.token,
                             expected_amount |-> session.price,
                             start_time |-> now, pc |-> "poll",
                             created |-> FALSE, sent |-> {}])
    /\ UNCHANGED <<now, boosts, group_configs, boost_sessions, payments,
                   _token_cache, received, last, alerts, calls, awaiting,
                   ws, lb, fmt, stop>>

\* monitor_boost_payment, one turn of the loop in which verify_payment
\* answers True: the Boost row is added and committed
MonitorConfirm(i) ==
    /\ monitors[i].pc = "poll"
    /\ WithinPaymentWindow(monitors[i])
    /\ verify_payment(monitors[i].expected_amount, monitors[i].start_time)
    /\ Len(boosts) < MaxBoosts
    /\ boosts' = InsertBoost(BoostRow(monitors[i].token_address,
                                      sessions[monitors[i].session].duration,
                                      monitors[i].expected_amount,
                                      monitors[i].user_id))
    /\ monitors' = [monitors EXCEPT ![i].pc = "notify", ![i].created = TRUE]
    /\ UNCHANGED <<now, group_configs, boost_sessions, sessions, payments,
                   _token_cache, received, last, alerts, calls, awaiting,
                   ws, lb, fmt, stop>>

\* monitor_boost_payment after the commit: the two notices, the token data
\* lookup between them and "del boost_sessions[user_id]"; any exception ends in
\* the error notice, and the finally clause drops the user's session.
MonitorNotify(i, userSendOk, resp, trendSendOk) ==
    /\ monitors[i].pc = "notify"
    /\ LET m == monitors[i]
           r == get_token_data(_token_cache, m.token_address, resp)
       IN  /\ _token_cache' = IF userSendOk THEN r.cache ELSE _token_cache
           /\ monitors' =
                [monitors EXCEPT ![i] =
                    [Finished EXCEPT !.created = TRUE,
                                     !.sent = NoticesAfterCommit(
                                                 userSendOk, r.token, trendSendOk,
                                                 boost_sessions[m.user_id] # 0)]]
           /\ boost_sessions' = [boost_sessions EXCEPT ![m.user_id] = 0]
    /\ UNCHANGED <<now, boosts, group_configs, sessions, payments,
                   received, last, alerts, calls, awaiting,
                   ws, lb, fmt, stop>>

\* monitor_boost_payment when the 30 minutes are over: timeout notice, and
\* the finally clause drops the user's session
MonitorTimeout(i, sendOk) ==
    /\ monitors[i].pc = "poll"
    /\ ~WithinPaymentWindow(monitors[i])
    /\ monitors' = [monitors EXCEPT ![i] =
                        [Finished EXCEPT !.sent = NoticesAfterTimeout(sendOk)]]
    /\ boost_sessions' = [boost_sessions EXCEPT ![monitors[i].user_id] = 0]
    /\ UNCHANGED <<now, boosts, group_configs, sessions, payments,
                   _token_cache, received, last, alerts, calls, awaiting,
                   ws, lb, fmt, stop>>

\* a Pay transaction of amount a to BOOST_WALLET succeeds on chain
Pay(a) ==
    /\ Cardinality(payments) < MaxPayments
    /\ payments' = payments \cup {[amount |-> a, time |-> now]}
    /\ UNCHANGED <<now, boosts, group_configs, boost_sessions, sessions,
                   monitors, _token_cache, received, last, alerts, calls, awaiting,
                   ws, lb, fmt, stop>>

\* the clock advances
Tick(d) ==
    /\ now + d <= MaxTime
    /\ now' = now + d
    /\ UNCHANGED <<boosts, group_configs, boost_sessions, sessions, monitors,
                   payments, _token_cache, received, last, alerts, calls, awaiting,
                   ws, lb, fmt, stop>>

\* ----------------------------------------------------------- Ingestion Loop
SendFailures == {{}, {TrendingDest}, {1}}

NoDispatch == [is_boosted |-> FALSE, attempts |-> << >>,
               trending |-> FALSE, error |-> None]

Range(seq) == {seq[i] : i \in 1..Len(seq)}

\* the destinations whose send_message may never return
StuckDests == {1, TrendingDest}

\* the elements of seq up to and including the first x
RECURSIVE UpTo(_, _)
UpTo(seq, x) ==
    IF seq = << >> THEN << >>
    ELSE IF Head(seq) = x THEN << x >>
    ELSE << Head(seq) >> \o UpTo(Tail(seq), x)

\* process_buy_event when "await bot.send_message" to destination stuck never
\* returns: the coroutine stays suspended in that call, and what d lists
\* after it has not happened
SuspendedAt(d, stuck) ==
    IF stuck \in Range(d.attempts)
    THEN [d EXCEPT !.attempts = UpTo(d.attempts, stuck),
                   !.trending = FALSE, !.error = None]
    ELSE d

\* "buy_data = await cls._process_swap_event(event["params"])" and, when it
\* yields a buy, "await callback(buy_data)" (process_buy_event): what the two
\* calls do to the program state
HandleEvent(ev, resp, rate1, rate2, sendFails, stuck) ==
    /\ received < MaxEvents
    /\ awaiting = NoDest
    /\ received' = received + 1
    /\ \E n \in {_process_swap_event(ev, resp, rate1, rate2)} :
       \E d \in {IF n.buy = NoBuy THEN NoDispatch
                 ELSE SuspendedAt(process_buy_event(n.buy, sendFails), stuck)} :
       \E sent \in {Range(d.attempts) \cup
                      (IF d.trending THEN {TrendingDest} ELSE {})} :
           /\ awaiting' = IF stuck \in sent THEN stuck ELSE NoDest
           /\ _token_cache' = n.cache
           /\ last' = [ev |-> [token_in |-> ev.token_in, token_out |-> ev.token_out,
                               amount_out |-> ev.amount_out,
                               amount_ok |-> ev.amount_ok,
                               tx_digest |-> ev.tx_digest],
                       resp |-> resp, rate |-> rate1,
                       buy |-> n.buy, dispatched |-> n.buy # NoBuy,
                       at |-> now, is_boosted |-> d.is_boosted,
                       attempts |-> d.attempts,
                       failed |-> sendFails \cap sent,
                       trending |-> d.trending, error |-> d.error]
           /\ alerts' = [key \in DOMAIN alerts |->
                           IF key[2] = ev.tx_digest /\ key[1] \in sent
                           THEN alerts[key] + 1 ELSE alerts[key]]

\* one turn of the receive loop of start_buy_monitoring on an established,
\* subscribed connection: a swap event is received, normalised and, when it
\* yields a buy, handed to the callback, which the loop awaits
ReceiveEvent(ev, resp, rate1, rate2, sendFails, stuck) ==
    /\ ws.pc = "recv"
    /\ ws.pending = {}
    /\ HandleEvent(ev, resp, rate1, rate2, sendFails, stuck)
    /\ UNCHANGED <<now, boosts, group_configs, boost_sessions, sessions,
                   monitors, payments, calls, ws, lb, fmt, stop>>

\* what the collaborators answer while one message is handled: the market
\* data endpoint, the two SUI price calls and the chat transport.  A message
\* that is no SUI-in swap, or whose token is cached, consults none of them; a
\* failed market data call or an unparseable amount ends the handling before
\* the later ones are consulted.
Answers(ev) ==
    IF ~IsBuySwap(ev) \/ ev.token_out \in DOMAIN _token_cache
    THEN [resp : {"none"}, rate1 : {0}, rate2 : {0}, sendFails : {{}},
          stuck : {NoDest}]
    ELSE [resp : {"error"}, rate1 : {0}, rate2 : {0}, sendFails : {{}},
          stuck : {NoDest}]
         \cup
         (IF ev.amount_ok
          THEN [resp : {"200"}, rate1 : SuiRates, rate2 : SuiRates,
                sendFails : SendFailures, stuck : {NoDest}]
               \cup
               [resp : {"200"}, rate1 : SuiRates, rate2 : SuiRates,
                sendFails : {{}}, stuck : StuckDests]
          ELSE [resp : {"200"}, rate1 : {0}, rate2 : {0}, sendFails : {{}},
                stuck : {NoDest}])

\* ------------------------------------------- Ingestion Loop, step by step
\* start_buy_monitoring as a coroutine: connect, subscribe, then the receive
\* loop; ws.pc is the statement it is at.  ws.conn numbers the connections
\* opened, ws.sub is the connection the subscription was sent on, ws.taken
\* lists the kinds of the messages recv() returned, ws.pending holds the
\* messages taken and not yet dealt with, ws.handed and ws.dispatches list
\* the messages passed to _process_swap_event and to the callback.

\* the params of a message that is no swap event
NoParams == [token_in |-> None, token_out |-> None, amount_in |-> 0,
             amount_out |-> 0, amount_ok |-> TRUE, tx_digest |-> None]

\* the swap events of the stream in this part
StreamEvents ==
    { e \in RawEvents :
        /\ e.tx_digest = "tx1"
        /\ e.token_in = SUI => e.amount_in \in {0, 20000}
        /\ e.token_in # SUI => (e.token_in = "0xA" /\ e.token_out = SUI) }

\* what recv() may return: text that is no JSON, a JSON message without
\* "params" (the answer to the subscription), a swap event
StreamMessages ==
    [kind : {"malformed", "ack"}, ev : {NoParams}]
    \cup [kind : {"event"}, ev : StreamEvents]

\* the coroutine when the task is created
WsStart == [pc |-> "connect", conn |-> 0, sub |-> 0, faults |-> 0,
            taken |-> << >>, pending |-> {}, handed |-> << >>,
            dispatches |-> << >>]

\* the coroutine on its first connection, subscribed, waiting in recv()
WsReceiving == [WsStart EXCEPT !.pc = "recv", !.conn = 1, !.sub = 1]

\* "except Exception" of the outer loop: log, then asyncio.sleep(5)
OnConnectError(w) == [w EXCEPT !.pc = "sleep"]

OnConnectionClosed_Return(w) == [w EXCEPT !.pc = "done"]

\* "except ConnectionClosed: break": the inner loop is left, the connection
\* context exits and the outer "while True" connects again
OnConnectionClosed(w) == [w EXCEPT !.pc = "connect"]

OnMessageError_Break(w) == [w EXCEPT !.pc = "connect"]

\* "except Exception: continue" of the inner loop
OnMessageError(w) == [w EXCEPT !.pc = "recv"]

CanRecv_Always(w) == TRUE
CanRecv_UpToTwo(w) == Cardinality(w.pending) < 2

\* recv() is only reached when the turn before it has run to its end: the
\* normaliser and the callback are awaited inside the turn
CanRecv(w) == w.pending = {}

\* websockets.connect(BLOCKEDEN_WSS)
ws_connect(ok) ==
    /\ ws.pc = "connect"
    /\ ok \/ ws.faults < MaxFaults
    /\ ws' = IF ok THEN [ws EXCEPT !.pc = "subscribe", !.conn = @ + 1]
             ELSE OnConnectError([ws EXCEPT !.faults = @ + 1])
    /\ UNCHANGED <<now, boosts, group_configs, boost_sessions, sessions,
                   monitors, payments, _token_cache, received, last, alerts,
                   calls, awaiting, lb, fmt, stop>>

\* websocket.send of the sui_subscribeEvent request; a failure leaves the
\* connection context through the outer except
ws_subscribe(ok) ==
    /\ ws.pc = "subscribe"
    /\ ok \/ ws.faults < MaxFaults
    /\ ws' = IF ok THEN [ws EXCEPT !.pc = "recv", !.sub = ws.conn]
             ELSE OnConnectError([ws EXCEPT !.faults = @ + 1])
    /\ UNCHANGED <<now, boosts, group_configs, boost_sessions, sessions,
                   monitors, payments, _token_cache, received, last, alerts,
                   calls, awaiting, lb, fmt, stop>>

\* asyncio.sleep(5) returns
ws_sleep ==
    /\ ws.pc = "sleep"
    /\ ws' = [ws EXCEPT !.pc = "connect"]
    /\ UNCHANGED <<now, boosts, group_configs, boost_sessions, sessions,
                   monitors, payments, _token_cache, received, last, alerts,
                   calls, awaiting, lb, fmt, stop>>

\* websocket.recv() raises ConnectionClosed
ws_closed ==
    /\ ws.pc = "recv"
    /\ CanRecv(ws)
    /\ ws.faults < MaxFaults
    /\ ws' = OnConnectionClosed([ws EXCEPT !.faults = @ + 1])
    /\ UNCHANGED <<now, boosts, group_configs, boost_sessions, sessions,
                   monitors, payments, _token_cache, received, last, alerts,
                   calls, awaiting, lb, fmt, stop>>

\* websocket.recv() returns message m
ws_recv(m) ==
    /\ ws.pc = "recv"
    /\ CanRecv(ws)
    /\ Len(ws.taken) < MaxMessages
    /\ m.kind = "event" =>
          received + Cardinality({p \in ws.pending : p.kind = "event"}) < MaxEvents
    /\ ws' = [ws EXCEPT !.taken = Append(@, m.kind),
                        !.pending = @ \cup {[seq |-> Len(ws.taken) + 1,
                                             kind |-> m.kind, ev |-> m.ev]}]
    /\ UNCHANGED <<now, boosts, group_configs, boost_sessions, sessions,
                   monitors, payments, _token_cache, received, last, alerts,
                   calls, awaiting, lb, fmt, stop>>

\* json.loads(msg) raises on message m
ws_malformed(m) ==
    /\ m \in ws.pending
    /\ m.kind = "malformed"
    /\ ws' = OnMessageError([ws EXCEPT !.pending = @ \ {m}])
    /\ UNCHANGED <<now, boosts, group_configs, boost_sessions, sessions,
                   monitors, payments, _token_cache, received, last, alerts,
                   calls, awaiting, lb, fmt, stop>>

\* message m decodes to a dict without "params": nothing is done with it
ws_no_params(m) ==
    /\ m \in ws.pending
    /\ m.kind = "ack"
    /\ ws' = [ws EXCEPT !.pending = @ \ {m}]
    /\ UNCHANGED <<now, boosts, group_configs, boost_sessions, sessions,
                   monitors, payments, _token_cache, received, last, alerts,
                   calls, awaiting, lb, fmt, stop>>

\* message m decodes to a swap event: it is normalised and, when it yields a
\* buy, dispatched; every send returns
ws_event(m, resp, rate1, rate2, sendFails) ==
    /\ m \in ws.pending
    /\ m.kind = "event"
    /\ HandleEvent(m.ev, resp, rate1, rate2, sendFails, NoDest)
    /\ ws' = [ws EXCEPT !.pending = @ \ {m},
                        !.handed = Append(@, m.seq),
                        !.dispatches = IF last'.dispatched
                                       THEN Append(@, m.seq) ELSE @]
    /\ UNCHANGED <<now, boosts, group_configs, boost_sessions, sessions,
                   monitors, payments, calls, lb, fmt, stop>>

\* ------------------------------------------------------------- shutdown()
\* the dispatcher calls the registered shutdown(): the coroutine runs up to
\* "await bot.delete_webhook()"
shutdown_call ==
    /\ stop = "running"
    /\ stop' = "delete_webhook"
    /\ UNCHANGED <<now, boosts, group_configs, boost_sessions, sessions,
                   monitors, payments, _token_cache, received, last, alerts,
                   calls, awaiting, ws, lb, fmt>>

\* delete_webhook returns: the coroutine goes on to "await bot.session.close()"
shutdown_delete_webhook ==
    /\ stop = "delete_webhook"
    /\ stop' = "session_close"
    /\ UNCHANGED <<now, boosts, group_configs, boost_sessions, sessions,
                   monitors, payments, _token_cache, received, last, alerts,
                   calls, awaiting, ws, lb, fmt>>

\* bot.session.close() returns and with it shutdown(); it has touched neither
\* the task of start_buy_monitoring nor its websocket
shutdown_return ==
    /\ stop = "session_close"
    /\ stop' = "returned"
    /\ UNCHANGED <<now, boosts, group_configs, boost_sessions, sessions,
                   monitors, payments, _token_cache, received, last, alerts,
                   calls, awaiting, ws, lb, fmt>>

\* ------------------------------------------- concurrent market data calls
\* get_token_data is awaited by the receive loop, by every payment monitor
\* task, by the leaderboard loop and by the configuration flow, all on one
\* event loop; a call gives up control while its HTTP request is pending.

\* the "entry" of a call that found no cache entry
NoTime == 0 - 1

\* get_token_data(address) up to its first await.  With the address cached the
\* read of cached.timestamp raises and the call returns None at once;
\* otherwise the request is sent.  "entry" is the timestamp of the cache entry
\* found (NoTime: none).
get_token_data_call(address) ==
    /\ Len(calls) < MaxCalls
    /\ calls' = Append(calls,
          IF address \in DOMAIN _token_cache
          THEN [address |-> address, pc |-> "returned", at |-> now,
                entry |-> _token_cache[address].timestamp,
                resp |-> "none", stale |-> TRUE, token |-> None]
          ELSE [address |-> address, pc |-> "fetching", at |-> now,
                entry |-> NoTime,
                resp |-> "none", stale |-> FALSE, token |-> None])
    /\ UNCHANGED <<now, boosts, group_configs, boost_sessions, sessions,
                   monitors, payments, _token_cache, received, last, alerts,
                   awaiting,
                   ws, lb, fmt, stop>>

\* the pending request of call i is answered and the call runs to its return.
\* "stale" records whether the cache held the address when the answer came.
get_token_data_return(i, resp) ==
    /\ calls[i].pc = "fetching"
    /\ \E r \in {FetchTokenData(_token_cache, calls[i].address, resp)} :
          /\ _token_cache' = r.cache
          /\ calls' = [calls EXCEPT ![i] =
                          [@ EXCEPT !.pc = "returned", !.resp = resp,
                                    !.stale = calls[i].address \in DOMAIN _token_cache,
                                    !.token = r.token]]
    /\ UNCHANGED <<now, boosts, group_configs, boost_sessions, sessions,
                   monitors, payments, received, last, alerts, awaiting,
                   ws, lb, fmt, stop>>

\* ------------------------------------------------- Leaderboard Aggregator
\* update_leaderboard when its task is created: about to run its first cycle,
\* nothing sent to the trending channel and nothing pinned there.  "samples"
\* lists the buys handed to process_buy_event with their times; the program
\* keeps no such list, it is recorded here to compare the ranking with.
LbStart ==
    [pc |-> "cycle", n |-> 0, board |-> << >>, at |-> 0, msgs |-> 0,
     pinned |-> {}, outcome |-> "no cycle", samples |-> << >>]

\* volume_30m as the market data endpoint reports it, in USD
Volumes == {0, 700}

\* what GET /trending answers: the addresses of data["tokens"] in the
\* endpoint's order on status 200, nothing usable otherwise
TrendingAnswers ==
    { [status |-> "200", tokens |-> << "0xA", "0xB" >>],
      [status |-> "200", tokens |-> << "0xB", "0xA" >>],
      [status |-> "200", tokens |-> << "0xB" >>],
      [status |-> "error", tokens |-> << >>] }

\* what the token endpoint answers for the addresses of a /trending answer:
\* a status per address asked for and the volume_30m of a 200 answer
BoardAnswers(trend) ==
    { a \in [resp : [Tokens -> {"200", "error", "none"}],
             vols : [Tokens -> Volumes]] :
        \A t \in Tokens :
            /\ (a.resp[t] = "none") <=> (t \notin Range(trend.tokens))
            /\ a.resp[t] # "200" => a.vols[t] = 0 }

\* the Telegram call of a cycle that raises TelegramAPIError, if any
TelegramFailures ==
    {"none", "send_message", "unpin_all_chat_messages", "pin_chat_message"}

\* the key of the sort of get_trending_tokens, (is_boosted, volume_30m),
\* compared as Python compares tuples
KeyLess(a, b) ==
    \/ ~a.is_boosted /\ b.is_boosted
    \/ a.is_boosted = b.is_boosted /\ a.volume_30m < b.volume_30m

\* sorted(tokens, key=..., reverse=True): descending by key, elements with
\* equal keys keep the order they had
RECURSIVE InsertDescending(_, _)
InsertDescending(x, s) ==
    IF s = << >> THEN << x >>
    ELSE IF KeyLess(Head(s), x) THEN << x >> \o s
    ELSE << Head(s) >> \o InsertDescending(x, Tail(s))

RECURSIVE SortedDescending(_)
SortedDescending(s) ==
    IF s = << >> THEN << >>
    ELSE InsertDescending(s[Len(s)], SortedDescending(SubSeq(s, 1, Len(s) - 1)))

\* "for token_data in data["tokens"]": get_token_data per address, the token
\* appended when one is returned.  A TokenData built by get_token_data has
\* is_boosted at its default.
RECURSIVE TrendingLoop(_, _, _, _, _)
TrendingLoop(addresses, cache, resp, vols, tokens) ==
    IF addresses = << >>
    THEN [tokens |-> tokens, cache |-> cache]
    ELSE LET address == Head(addresses)
             r == get_token_data(cache, address, resp[address])
         IN  TrendingLoop(Tail(addresses), r.cache, resp, vols,
                 IF r.token # None
                 THEN Append(tokens, [address |-> address, is_boosted |-> FALSE,
                                      volume_30m |-> vols[address]])
                 ELSE tokens)

\* SuiAPI.get_trending_tokens(); resp and vols are what the token endpoint
\* answers per address
get_trending_tokens(cache, trend, resp, vols) ==
    IF trend.status = "200"
    THEN LET l == TrendingLoop(trend.tokens, cache, resp, vols, << >>)
         IN  [tokens |-> SortedDescending(l.tokens), cache |-> l.cache]
    ELSE [tokens |-> << >>, cache |-> cache]

\* Utils.calculate_boost_multiplier(paid_amount), in hundredths; nothing in
\* the program calls it
calculate_boost_multiplier(paid_amount) ==
    IF paid_amount >= 180 THEN 375
    ELSE IF paid_amount >= 110 THEN 300
    ELSE IF paid_amount >= 80 THEN 270
    ELSE IF paid_amount >= 45 THEN 225
    ELSE IF paid_amount >= 27 THEN 195
    ELSE IF paid_amount >= 20 THEN 180
    ELSE 150

\* what a token's boost adds to its sort key in get_trending_tokens: the
\* first component of (is_boosted, volume_30m), False counting as 0
RankContribution(entry) == IF entry.is_boosted THEN 1 ELSE 0

\* top_tokens[:10]
TopTen(tokens) == SubSeq(tokens, 1, Min(Len(tokens), LeaderboardSize))

\* mutant of the pin handling: the new message pinned, the old pins left
ReplacePin_KeepOld(pinned, id, fails) ==
    IF fails = "pin_chat_message" THEN pinned ELSE pinned \cup {id}

\* the pins of the trending channel after "unpin_all_chat_messages" and
\* "pin_chat_message(sent.message_id)", the second skipped when the first raises
ReplacePin(pinned, id, fails) ==
    IF fails = "unpin_all_chat_messages" THEN pinned
    ELSE IF fails = "pin_chat_message" THEN {}
    ELSE {id}

\* mutant of the error handling: an exception leaves the loop
AfterCycle_RaiseOnError(fails) == IF fails = "none" THEN "sleep" ELSE "done"

\* where update_leaderboard is after a cycle: both handlers log and fall
\* through to asyncio.sleep(1800)
AfterCycle(fails) == "sleep"

\* one pass of the body of "while True" in update_leaderboard, up to the sleep
update_leaderboard(trend, resp, vols, fails) ==
    /\ lb.pc = "cycle"
    /\ \E g \in {get_trending_tokens(_token_cache, trend, resp, vols)} :
          /\ _token_cache' = g.cache
          /\ lb' = IF fails = "send_message"
                   THEN [lb EXCEPT !.pc = AfterCycle(fails), !.n = @ + 1,
                                   !.outcome = fails]
                   ELSE [lb EXCEPT !.pc = AfterCycle(fails), !.n = @ + 1,
                                   !.board = TopTen(g.tokens), !.at = now,
                                   !.msgs = @ + 1,
                                   !.pinned = ReplacePin(@, lb.msgs + 1, fails),
                                   !.outcome = fails]
    /\ UNCHANGED <<now, boosts, group_configs, boost_sessions, sessions,
                   monitors, payments, received, last, alerts, calls, awaiting,
                   ws, fmt, stop>>

\* asyncio.sleep(1800) returns
lb_wake ==
    /\ lb.pc = "sleep"
    /\ lb.n < MaxCycles
    /\ lb' = [lb EXCEPT !.pc = "cycle"]
    /\ UNCHANGED <<now, boosts, group_configs, boost_sessions, sessions,
                   monitors, payments, _token_cache, received, last, alerts,
                   calls, awaiting, ws, fmt, stop>>

\* the receive loop handling one swap event beside the aggregator
IngestSample(ev, resp, rate1, rate2) ==
    /\ ws.pc = "recv"
    /\ ws.pending = {}
    /\ HandleEvent(ev, resp, rate1, rate2, {}, NoDest)
    /\ lb' = [lb EXCEPT !.samples =
                 IF last'.dispatched
                 THEN Append(@, [token |-> last'.buy.token_address,
                                 usd |-> last'.buy.amount_usd, at |-> now])
                 ELSE @]
    /\ UNCHANGED <<now, boosts, group_configs, boost_sessions, sessions,
                   monitors, payments, calls, ws, fmt, stop>>

\* ----------------------------------------------------- format_buy_alert calls
\* no call of format_buy_alert made yet
NoFormat == [pc |-> "none", amount_usd |-> 0, buy_step |-> 0, emojis |-> 0]

\* buy_data.amount_usd of a call, in 1/10000 USD: whole amounts up to MaxUsd
\* and just below the next one, and amounts at and beyond 50 steps
UsdAmounts ==
    {k * UsdScale + f : k \in 0..MaxUsd, f \in {0, UsdScale - 1}}
    \cup {k * UsdScale : k \in {249, 250, 1000}}

\* token_config.buy_step of a call, in 1/10000 USD: -5, 0, 1, 2.5 and 5 USD
\* (the column is an unconstrained Numeric)
BuySteps == {(0 - 5) * UsdScale, 0, UsdScale, 5 * (UsdScale \div 2), 5 * UsdScale}

\* a caller awaits format_buy_alert(buy_data, token_config)
format_call(usd, step) ==
    /\ fmt.pc = "none"
    /\ fmt' = [pc |-> "called", amount_usd |-> usd, buy_step |-> step, emojis |-> 0]
    /\ UNCHANGED <<now, boosts, group_configs, boost_sessions, sessions,
                   monitors, payments, _token_cache, received, last, alerts,
                   calls, awaiting, ws, lb, stop>>

\* the call returns the message or raises BuyBotException
format_return ==
    /\ fmt.pc = "called"
    /\ \E r \in {format_buy_alert([NoBuy EXCEPT !.amount_usd = fmt.amount_usd],
                                   [buy_step |-> fmt.buy_step])} :
          fmt' = [fmt EXCEPT !.pc = IF r.ok THEN "returned" ELSE "raised",
                             !.emojis = r.emojis]
    /\ UNCHANGED <<now, boosts, group_configs, boost_sessions, sessions,
                   monitors, payments, _token_cache, received, last, alerts,
                   calls, awaiting, ws, lb, stop>>

\* ------------------------------------------------------------ specification
\* the process after start-up: module-level dicts and class attributes empty,
\* the receive loop about to read its first message
InitProcess ==
    /\ now = 0
    /\ boost_sessions = [u \in Users |-> 0]
    /\ sessions = << >>
    /\ monitors = << >>
    /\ payments = {}
    /\ _token_cache = << >>
    /\ received = 0
    /\ calls = << >>
    /\ awaiting = NoDest
    /\ lb = LbStart
    /\ fmt = NoFormat
    /\ stop = "running"
    /\ last = [ev |-> NoEvent, resp |-> "none", rate |-> 0,
               buy |-> NoBuy, dispatched |-> FALSE,
               at |-> 0, is_boosted |-> FALSE, attempts |-> << >>,
               failed |-> {}, trending |-> FALSE, error |-> None]
    /\ alerts = [key \in Dests \X TxHashes |-> 0]

\* rows of "boosts" that monitor_boost_payment committed before this start
BoostTables ==
    { << >>,
      << [id |-> 1, token_address |-> "0xA", user_id |-> 1, duration_hours |-> 4,
          paid_amount |-> 15, start_time |-> 0, is_active |-> TRUE] >>,
      << [id |-> 1, token_address |-> "0xB", user_id |-> 2, duration_hours |-> 8,
          paid_amount |-> 20, start_time |-> 0, is_active |-> TRUE] >> }

\* the same, and a table in which both tokens are boosted, by different tiers
RankedBoostTables ==
    BoostTables \cup
    { << [id |-> 1, token_address |-> "0xA", user_id |-> 1, duration_hours |-> 4,
          paid_amount |-> 15, start_time |-> 0, is_active |-> TRUE],
         [id |-> 2, token_address |-> "0xB", user_id |-> 2, duration_hours |-> 8,
          paid_amount |-> 20, start_time |-> 0, is_active |-> TRUE] >> }

BoostActions ==
    \/ \E u \in Users : cmd_boost(u)
    \/ \E u \in Users, t \in Tokens : boost_token_input(u, t)
    \/ \E u \in Users : handle_boost_cancel(u)
    \/ \E u \in Users, k \in DOMAIN BOOST_OPTIONS : handle_boost_select(u, k)
    \/ \E i \in 1..Len(monitors) : MonitorConfirm(i)
    \/ \E i \in 1..Len(monitors), ok \in BOOLEAN, resp \in {"200", "error"},
          trendOk \in BOOLEAN :
          MonitorNotify(i, ok, resp, trendOk)
    \/ \E i \in 1..Len(monitors), ok \in BOOLEAN : MonitorTimeout(i, ok)
    \/ \E a \in Prices : Pay(a)

IngestActions ==
    /\ received < MaxEvents
    /\ awaiting = NoDest
    /\ \E ev \in RawEvents : \E a \in Answers(ev) :
          ReceiveEvent(ev, a.resp, a.rate1, a.rate2, a.sendFails, a.stuck)

CacheActions ==
    \/ \E address \in Tokens : get_token_data_call(address)
    \/ \E i \in 1..Len(calls), resp \in {"200", "error"} :
          get_token_data_return(i, resp)

\* the steps start_buy_monitoring takes by itself
LoopSteps ==
    \/ \E ok \in BOOLEAN : ws_connect(ok)
    \/ \E ok \in BOOLEAN : ws_subscribe(ok)
    \/ ws_sleep
    \/ \E m \in ws.pending : ws_malformed(m)
    \/ \E m \in ws.pending : ws_no_params(m)
    \/ \E m \in ws.pending : \E a \in Answers(m.ev) :
          a.stuck = NoDest /\ ws_event(m, a.resp, a.rate1, a.rate2, a.sendFails)

\* what the stream does to it
StreamSteps ==
    \/ ws_closed
    \/ \E m \in StreamMessages : ws_recv(m)

Clock == \E d \in Durations : Tick(d)

\* The whole program on a fresh database.
Init ==
    InitProcess /\ boosts = << >> /\ group_configs \in ConfigTables /\ ws = WsStart
Next == BoostActions \/ LoopSteps \/ StreamSteps \/ CacheActions \/ Clock
Spec == Init /\ [][Next]_vars

\* The boost flow alone: commands, callbacks, payment monitors and the clock.
InitBoost ==
    InitProcess /\ boosts = << >> /\ group_configs = << >> /\ ws = WsStart
NextBoost == BoostActions \/ Clock
SpecBoost == InitBoost /\ [][NextBoost]_vars

\* The ingestion pipeline alone (receive, normalise, dispatch) over a database
\* holding group configurations and boosts from earlier activity.
InitIngest ==
    /\ InitProcess
    /\ boosts \in BoostTables
    /\ group_configs \in ConfigTables
    /\ ws = WsReceiving
NextIngest == IngestActions \/ Clock
SpecIngest == InitIngest /\ [][NextIngest]_vars

\* The same with the scheduling of the event loop: the receive loop is resumed
\* whenever it is not suspended in an await that has not completed and the
\* stream has a message for it.
SpecIngestLive == SpecIngest /\ WF_vars(IngestActions)

\* The market data cache under concurrent callers.
InitCache ==
    InitProcess /\ boosts = << >> /\ group_configs = << >> /\ ws = WsStart
NextCache == CacheActions \/ Clock
SpecCache == InitCache /\ [][NextCache]_vars

\* The receive loop from the creation of its task, over a database holding
\* group configurations; every send of the dispatcher returns.
InitConn ==
    InitProcess /\ boosts = << >> /\ group_configs \in ConfigTables /\ ws = WsStart
NextConn == LoopSteps \/ StreamSteps
SpecConn == InitConn /\ [][NextConn]_vars

\* The same with the scheduling of the event loop: a coroutine whose await
\* has completed is resumed.
SpecConnLive == SpecConn /\ WF_vars(LoopSteps)

\* the steps of shutdown()
StopSteps ==
    \/ shutdown_call
    \/ shutdown_delete_webhook
    \/ shutdown_return

\* The receive loop and shutdown() on one event loop, no group tracking any
\* token; every coroutine whose await has completed is resumed.
InitStop ==
    InitProcess /\ boosts = << >> /\ group_configs = << >> /\ ws = WsStart
NextStop == LoopSteps \/ StreamSteps \/ StopSteps
SpecStop == InitStop /\ [][NextStop]_vars
SpecStopLive == SpecStop /\ WF_vars(LoopSteps) /\ WF_vars(StopSteps)

\* the steps update_leaderboard takes by itself
BoardSteps ==
    \/ \E trend \in TrendingAnswers, fails \in TelegramFailures :
          \E a \in BoardAnswers(trend) :
              update_leaderboard(trend, a.resp, a.vols, fails)
    \/ lb_wake

\* the buys arriving meanwhile: well-formed, their market data available
BoardIngest ==
    \E ev \in {e \in StreamEvents : IsBuySwap(e) /\ e.amount_ok} :
        \E a \in {x \in Answers(ev) :
                    /\ x.stuck = NoDest /\ x.sendFails = {}
                    /\ x.resp # "error" /\ x.rate1 = x.rate2} :
            IngestSample(ev, a.resp, a.rate1, a.rate2)

\* The aggregator beside the receive loop, from start-up, no group tracking
\* any token.
InitBoard ==
    /\ InitProcess
    /\ boosts \in RankedBoostTables
    /\ group_configs = << >>
    /\ ws = WsReceiving
NextBoard == BoardSteps \/ BoardIngest \/ Clock
SpecBoard == InitBoard /\ [][NextBoard]_vars

\* The aggregator alone, from start-up on a fresh database.
InitCycle ==
    InitProcess /\ boosts = << >> /\ group_configs = << >> /\ ws = WsStart
NextCycle == BoardSteps \/ Clock
SpecCycle == InitCycle /\ [][NextCycle]_vars

\* The same with the scheduling of the event loop: a coroutine whose await
\* has completed, the sleep included, is resumed.
SpecCycleLive == SpecCycle /\ WF_vars(BoardSteps)

\* format_buy_alert as a function of its arguments.
FormatSteps ==
    \/ \E usd \in UsdAmounts, step \in BuySteps : format_call(usd, step)
    \/ format_return
InitFormat ==
    InitProcess /\ boosts = << >> /\ group_configs = << >> /\ ws = WsStart
SpecFormat == InitFormat /\ [][FormatSteps]_vars

\* ================================================================== claims
\* A Boost is active at time t: not deactivated and start_time <= t <= end_time.
BoostActive(b, t) == b.is_active /\ b.start_time <= t /\ t <= EndTime(b)

\* the rows of a boosts table that are active for a token at time t
ActiveBoosts(table, token, t) ==
    {i \in 1..Len(table) :
        table[i].token_address = token /\ BoostActive(table[i], t)}

\* the rows of group_configs tracking the token of the last buy
LastConfigs == SelectConfigs(group_configs, last.buy.token_address)

\* number of send_message calls to the group of a config row for the last buy
Deliveries(id) == Cardinality({i \in 1..Len(last.attempts) : last.attempts[i] = id})

\* the trending rule of the design: 200 USD or more, or a boost active when
\* the buy was processed
TrendingDue ==
    \/ last.buy.amount_usd >= MIN_TRENDING_BUY * UsdScale
    \/ ActiveBoosts(boosts, last.buy.token_address, last.at) # {}

\* the trending rule as the dispatcher evaluated it for the last buy
TrendingChecked ==
    last.buy.amount_usd >= MIN_TRENDING_BUY * UsdScale \/ last.is_boosted

\* C1: in every reachable state each token has at most one active Boost.
C1_AtMostOneActiveBoost ==
    \A t \in Tokens : Cardinality(ActiveBoosts(boosts, t, now)) <= 1

\* C2: a step that inserts Boost B2 for a token that has an active Boost B1
\* leaves exactly one active Boost for that token, and it is B2.
C2_ActivationReplacesActive ==
    [][ (Len(boosts') = Len(boosts) + 1
         /\ ActiveBoosts(boosts, boosts'[Len(boosts')].token_address, now) # {})
        => ActiveBoosts(boosts', boosts'[Len(boosts')].token_address, now')
             = {Len(boosts')} ]_vars

\* C3: a buy is sent to the trending channel if and only if its usd_amount is
\* at least 200 or its token is boosted when it is processed.
C3_TrendingIffDue ==
    last.dispatched => (last.trending <=> TrendingDue)

\* C4: when no group tracks the token of a buy, processing raises no error and
\* a buy that qualifies for trending is still sent to the trending channel.
C4_EmptyResolveStillTrending ==
    (last.dispatched /\ LastConfigs = << >>)
        => (last.error = None /\ (TrendingChecked => last.trending))

\* C5: every destination tracking the token of a buy gets exactly one delivery
\* when usd_amount >= min_buy_usd and none when usd_amount < min_buy_usd.
C5_ThresholdDelivery ==
    last.dispatched =>
        \A i \in 1..Len(LastConfigs) :
            Deliveries(LastConfigs[i].id) =
                (IF last.buy.amount_usd >= LastConfigs[i].min_buy THEN 1 ELSE 0)

\* C6: no alert is ever sent for a configuration whose is_active is false.
C6_InactiveNeverDelivered ==
    \A i \in 1..Len(group_configs) : \A tx \in TxHashes :
        alerts[<<group_configs[i].id, tx>>] > 0 => group_configs[i].is_active

\* C7: when the message of one qualifying destination cannot be prepared or
\* its delivery fails, every other qualifying destination of that buy is still
\* delivered to, and so is the trending channel when it qualifies.
C7_FailureIsolated ==
    (/\ last.dispatched
     /\ \E i \in 1..Len(LastConfigs) :
           /\ last.buy.amount_usd >= LastConfigs[i].min_buy
           /\ \/ LastConfigs[i].buy_step = 0
              \/ LastConfigs[i].id \in last.failed)
    => /\ \A j \in 1..Len(LastConfigs) :
             (last.buy.amount_usd >= LastConfigs[j].min_buy
              /\ LastConfigs[j].buy_step # 0)
                 => Deliveries(LastConfigs[j].id) = 1
       /\ (TrendingChecked /\ LastConfigs[1].buy_step # 0) => last.trending

\* C8: no destination and not the trending channel is alerted more than once
\* for one transaction hash.
C8_OneDispatchPerTx ==
    \A key \in DOMAIN alerts : alerts[key] <= 1

\* C9 as claimed: every raw event whose token_in is SUI is discarded.
C9_SuiInDiscarded ==
    last.ev.token_in = SUI => (last.buy = NoBuy /\ ~last.dispatched)

\* C9 as amended: every raw event whose token_in is not SUI is discarded as a
\* non-buy: it yields no Buy and nothing is dispatched.
C9_NonSuiInDiscarded ==
    (last.ev # NoEvent /\ last.ev.token_in # SUI)
        => (last.buy = NoBuy /\ last.attempts = << >> /\ ~last.trending)

\* reached: a swap with a token as input has been handled and discarded
C9_Witness ==
    /\ last.ev.token_in \in Tokens
    /\ last.buy = NoBuy
    /\ received > 0

\* C10: a Buy comes only from a swap with SUI as input, and a swap whose output
\* asset is SUI never yields a Buy or an alert.
C10_BuyOnlyFromSuiIn ==
    /\ last.buy # NoBuy => last.ev.token_in = SUI
    /\ last.ev.token_out = SUI =>
          (~last.dispatched /\ last.attempts = << >> /\ ~last.trending)

\* reached: a SUI-in swap has produced a Buy of its output token
C10_Witness ==
    /\ last.ev.token_in = SUI
    /\ last.buy # NoBuy
    /\ last.buy.token_address = last.ev.token_out

\* the fields of the Buy of the last message, against the swap it came from:
\* usd_amount = sui_amount * rate, token_amount the amount received in whole
\* tokens, mcap the market-data mcap
BuyFieldsAsClaimed ==
    /\ last.buy.amount_usd = last.buy.amount_sui * last.rate
    /\ last.buy.token_amount * Pow10(TokenData(last.ev.token_out).decimals)
          = last.ev.amount_out
    /\ last.buy.mcap = TokenData(last.ev.token_out).mcap

\* C11: the Buy emitted for a SUI-in swap has usd_amount = sui_amount * rate,
\* token_amount equal to the event's token-out amount and the market-data
\* mcap, and it is delivered to every active destination of the token whose
\* min_buy_usd is at most usd_amount.
C11_BuyFieldsAndDispatch ==
    last.dispatched =>
        /\ BuyFieldsAsClaimed
        /\ \A i \in 1..Len(LastConfigs) :
              (LastConfigs[i].is_active
               /\ LastConfigs[i].min_buy <= last.buy.amount_usd)
                  => Deliveries(LastConfigs[i].id) >= 1

\* C12: check_token_boost answers true if and only if a Boost of the token
\* exists with start_time <= at <= end_time, both bounds inclusive.
C12_IsBoostedIffInWindow ==
    last.dispatched =>
        (last.is_boosted <=>
            \E i \in 1..Len(boosts) :
                /\ boosts[i].token_address = last.buy.token_address
                /\ boosts[i].start_time <= last.at
                /\ last.at <= EndTime(boosts[i]))

\* a token whose Boosts have all ended is not boosted for check_token_boost
ExpiredNotBoosted ==
    \A t \in Tokens :
        (\A k \in 1..Len(boosts) :
            boosts[k].token_address = t => now > EndTime(boosts[k]))
            => ~check_token_boost(t)

\* C13: once now > end_time of a Boost, neither check_token_boost nor
\* get_active_boosts reports that Boost as active, although no row was
\* updated.
C13_ExpiredNeverReported ==
    /\ ExpiredNotBoosted
    /\ \A i \in 1..Len(boosts) :
          now > EndTime(boosts[i]) =>
              \A j \in 1..Len(get_active_boosts) :
                  get_active_boosts[j].id # boosts[i].id

\* a call found an entry that was younger than the TTL
FoundFresh(c) ==
    c.entry # NoTime /\ (c.at - c.entry) * 60 < CacheTtlMinutes

\* C14: a call that finds an entry younger than 5 minutes returns it without
\* an upstream fetch; any other call fetches, and on a successful fetch stores
\* and returns the fresh value.
C14_CacheGet ==
    \A i \in 1..Len(calls) :
        calls[i].pc = "returned" =>
            IF FoundFresh(calls[i])
            THEN calls[i].token = calls[i].address /\ calls[i].resp = "none"
            ELSE /\ calls[i].resp # "none"
                 /\ calls[i].resp = "200" =>
                       /\ calls[i].token = calls[i].address
                       /\ calls[i].address \in DOMAIN _token_cache

\* C15: at most one upstream fetch per address is outstanding at any time.
C15_SingleFlight ==
    \A a \in Tokens :
        Cardinality({i \in 1..Len(calls) :
                        calls[i].pc = "fetching" /\ calls[i].address = a}) <= 1

\* C16: a call whose upstream fetch fails while the cache holds an entry for
\* the address returns that entry, not None.
C16_StaleOnFailure ==
    \A i \in 1..Len(calls) :
        (calls[i].pc = "returned" /\ calls[i].resp = "error" /\ calls[i].stale)
            => calls[i].token = calls[i].address

\* no step removes an entry from the cache
CacheNeverShrinks ==
    [][DOMAIN _token_cache \subseteq DOMAIN _token_cache']_vars

\* C17: when the market data fetch for the token of a SUI-in swap fails and
\* nothing is cached, a Buy with usd_amount 0 and mcap 0 is still emitted and
\* handed to the dispatcher.
C17_UnavailableStillEmits ==
    (last.ev.token_in = SUI /\ last.ev.amount_ok /\ last.resp = "error")
        => /\ last.buy # NoBuy
           /\ last.buy.amount_usd = 0
           /\ last.buy.mcap = 0
           /\ last.dispatched

\* a failed SUI price call alone does not drop the event: the Buy is emitted
\* with usd_amount 0
PriceFailureDegrades ==
    (last.ev.token_in = SUI /\ last.resp = "200" /\ last.ev.amount_ok
     /\ last.rate = 0)
        => (last.dispatched /\ last.buy.amount_usd = 0)

\* C18: a SUI-in swap whose amount cannot be parsed still yields a Buy, with
\* the amount taken as 0.
C18_MalformedAmountDegrades ==
    (last.ev.token_in = SUI /\ last.resp = "200" /\ ~last.ev.amount_ok)
        => /\ last.buy # NoBuy
           /\ last.buy.amount_sui = 0
           /\ last.dispatched

\* C19: a destination whose delivery of a buy failed is tried again for that
\* buy, up to 3 attempts in all.
C19_FailureRetried ==
    last.dispatched =>
        \A i \in 1..Len(LastConfigs) :
            LastConfigs[i].id \in last.failed
                => /\ Deliveries(LastConfigs[i].id) >= 2
                   /\ Deliveries(LastConfigs[i].id) <= 3

\* every destination of the last buy other than the one awaited that
\* qualifies has been sent to, and so has the trending channel when the buy
\* qualifies for it
OthersDelivered ==
    /\ \A i \in 1..Len(LastConfigs) :
          (LastConfigs[i].id # awaiting
           /\ last.buy.amount_usd >= LastConfigs[i].min_buy)
              => Deliveries(LastConfigs[i].id) >= 1
    /\ (awaiting # TrendingDest /\ TrendingChecked) => last.trending

\* the receive loop is suspended in a delivery of a buy all of whose
\* destinations can be formatted for
StuckOnDelivery ==
    /\ awaiting # NoDest
    /\ \A i \in 1..Len(LastConfigs) : LastConfigs[i].buy_step # 0

\* C20: when the delivery to one destination never completes, the other
\* qualifying destinations and the trending channel still get the buy, and
\* the next message of the stream is still handled.
C20_StuckNeverBlocks ==
    /\ StuckOnDelivery ~> OthersDelivered
    /\ \A n \in 0..(MaxEvents - 1) :
          (StuckOnDelivery /\ received = n) ~> (received > n)

\* C21: after a closed connection or a failed connect the loop gets back to
\* receiving on a new connection on which it has sent its subscription; it
\* only ever receives on a connection it has subscribed on, and it never
\* ends.
C21_ReconnectsAndResubscribes ==
    /\ [](ws.pc # "done")
    /\ [](ws.pc = "recv" => (ws.conn >= 1 /\ ws.sub = ws.conn))
    /\ (ws.pc \in {"connect", "subscribe", "sleep"})
          ~> (ws.pc = "recv" /\ ws.sub = ws.conn)

\* reached: a connection was lost and the loop receives on a later one,
\* subscribed
C21_Witness ==
    /\ ws.faults >= 1
    /\ ws.conn >= 2
    /\ ws.pc = "recv"
    /\ ws.sub = ws.conn

\* C22: a step that disposes of a message that is malformed, or of an event
\* whose normalisation or dispatch ran into an error, leaves the loop on the
\* same connection, ready to receive the next message.
C22_ErrorsNeverHaltLoop ==
    [][ \A m \in ws.pending :
          (/\ m \notin ws'.pending
           /\ \/ m.kind = "malformed"
              \/ /\ m.kind = "event"
                 /\ \/ last'.error # None
                    \/ IsBuySwap(m.ev) /\ ~last'.dispatched)
          => /\ ws'.pc = "recv"
             /\ ws'.conn = ws.conn
             /\ ws'.sub = ws.sub
             /\ CanRecv(ws') ]_vars

\* reached: on the first connection a malformed message was dropped and a
\* later event, whose dispatch raised, has been handled
C22_Witness ==
    /\ ws.conn = 1
    /\ ws.pc = "recv"
    /\ last.error # None
    /\ \E i \in 1..Len(ws.taken) :
          /\ ws.taken[i] = "malformed"
          /\ \E k \in 1..Len(ws.handed) : ws.handed[k] > i

\* C23: every swap event the loop has taken from the stream has been handed
\* to the normaliser or is the one being handled, and the loop holds at most
\* one message at a time: it takes no further message while one is being
\* handled.
C23_BlocksRatherThanDrops ==
    /\ \A i \in 1..Len(ws.taken) :
          ws.taken[i] = "event" =>
              \/ \E k \in 1..Len(ws.handed) : ws.handed[k] = i
              \/ \E m \in ws.pending : m.seq = i
    /\ Cardinality(ws.pending) <= 1

\* reached: an event is being handled after an earlier event was handed over
C23_Witness ==
    /\ Len(ws.handed) >= 1
    /\ \E m \in ws.pending : m.kind = "event"

\* C24: buys are dispatched in the order in which their events were received.
C24_DispatchInReceiveOrder ==
    \A i, j \in 1..Len(ws.dispatches) :
        i < j => ws.dispatches[i] < ws.dispatches[j]

\* reached: two buys have been dispatched
C24_Witness ==
    Len(ws.dispatches) >= 2

\* the buy volume ingested for a token within the window before time t, in
\* 1/10000 USD
RECURSIVE WindowVolume(_, _, _)
WindowVolume(samples, token, t) ==
    IF samples = << >> THEN 0
    ELSE (IF /\ Head(samples).token = token
             /\ Head(samples).at <= t
             /\ (t - Head(samples).at) * 60 <= WindowMinutes
          THEN Head(samples).usd ELSE 0)
         + WindowVolume(Tail(samples), token, t)

\* C25: the volume a token is ranked with in a published summary is the sum
\* of the buys of that token ingested within the 30 minutes before the cycle;
\* older buys count for nothing.
C25_VolumeIsWindowSum ==
    \A i \in 1..Len(lb.board) :
        lb.board[i].volume_30m * UsdScale
            = WindowVolume(lb.samples, lb.board[i].address, lb.at)

\* the score of section 4.4 for a token at time t: the paid amount of its
\* active boost, 0 without one
BoostScore(token, t) ==
    LET rows == ActiveBoosts(boosts, token, t)
    IN  IF rows = {} THEN 0
        ELSE boosts[CHOOSE i \in rows : \A k \in rows : i <= k].paid_amount

Score(entry) == entry.volume_30m + BoostScore(entry.address, lb.at)

AddressRank(address) == IF address = "0xA" THEN 1 ELSE 2

\* C26: a published summary lists its tokens by descending score, the score
\* being the window volume plus the boost score, and tokens of equal score by
\* ascending address.
C26_RankedByScore ==
    \A i, j \in 1..Len(lb.board) :
        i < j =>
            \/ Score(lb.board[i]) > Score(lb.board[j])
            \/ /\ Score(lb.board[i]) = Score(lb.board[j])
               /\ AddressRank(lb.board[i].address) < AddressRank(lb.board[j].address)

\* C27: after a cycle whose send, unpin and pin all succeeded, the pinned
\* messages of the trending channel are exactly the summary sent last.
C27_NewestSummaryPinned ==
    (lb.n >= 1 /\ lb.outcome = "none") => lb.pinned = {lb.msgs}

\* reached: two cycles in a row published and pinned, the second replacing
\* the pin of the first
C27_Witness ==
    /\ lb.n >= 2
    /\ lb.outcome = "none"
    /\ lb.msgs >= 2
    /\ lb.pinned # {}

\* C28: update_leaderboard never leaves its loop, every cycle ends in the
\* sleep whatever failed in it, and after the sleep the next cycle starts.
C28_AlwaysNextCycle ==
    /\ [](lb.pc # "done")
    /\ [][lb.pc = "cycle" /\ lb' # lb /\ lb'.n # lb.n => lb'.pc = "sleep"]_vars
    /\ \A k \in 1..(MaxCycles - 1) :
          (lb.pc = "sleep" /\ lb.n = k) ~> (lb.pc = "cycle" /\ lb.n = k)

\* reached: a cycle in which a Telegram call raised is over and the next
\* cycle is starting
C28_Witness ==
    /\ lb.pc = "cycle"
    /\ lb.n >= 1
    /\ lb.outcome \in TelegramFailures \ {"none"}

\* C29: for a positive buy_step and a non-negative amount the call returns
\* and the emoji line holds n emojis, n being the number of whole steps in the
\* amount, or 50 when there are 50 steps or more; so between 0 and 50.
C29_EmojiCount ==
    (fmt.pc \in {"returned", "raised"} /\ fmt.buy_step > 0 /\ fmt.amount_usd >= 0) =>
        /\ fmt.pc = "returned"
        /\ fmt.emojis \in 0..MAX_EMOJIS
        /\ fmt.emojis * fmt.buy_step <= fmt.amount_usd
        /\ \/ fmt.emojis = MAX_EMOJIS
           \/ fmt.amount_usd < (fmt.emojis + 1) * fmt.buy_step
        /\ (fmt.buy_step = 5 * UsdScale /\ fmt.amount_usd = 23 * UsdScale)
               => fmt.emojis = 4
        /\ (fmt.buy_step = 5 * UsdScale /\ fmt.amount_usd = 1000 * UsdScale)
               => fmt.emojis = MAX_EMOJIS

\* reached: a call with buy_step 5 and an amount of 1000 USD has returned
\* with the capped emoji line
C29_Witness ==
    /\ fmt.pc = "returned"
    /\ fmt.buy_step = 5 * UsdScale
    /\ fmt.amount_usd = 1000 * UsdScale
    /\ fmt.emojis = MAX_EMOJIS

\* C30: for a buy_step of 0 or below the call returns a message with an
\* empty emoji line and raises nothing.
C30_NonPositiveStepEmptyLine ==
    (fmt.pc \in {"returned", "raised"} /\ fmt.buy_step <= 0) =>
        (fmt.pc = "returned" /\ fmt.emojis = 0)

\* a negative buy_step alone gives the empty emoji line without an error
NegativeStepEmptyLine ==
    (fmt.pc \in {"returned", "raised"} /\ fmt.buy_step < 0) =>
        (fmt.pc = "returned" /\ fmt.emojis = 0)

\* C31: once shutdown has been requested the receive loop makes no further
\* connection attempt, and it terminates.
C31_ShutdownStopsLoop ==
    /\ [][stop # "running" => ~(ws.pc = "connect" /\ ws'.pc # "connect")]_vars
    /\ (stop # "running") ~> (ws.pc = "done")

\* monitor i commits its Boost row in this step
Commits(i) == monitors[i].pc = "poll" /\ monitors'[i].pc = "notify"

\* C32: a Boost row is inserted only by a monitor that is within its 30
\* minutes and for whose expected amount a payment made within them is
\* listed, the row carrying that amount; a monitor whose 30 minutes are over
\* inserts nothing, calls send_message with the timeout notice and returns.
C32_BoostOnlyOnConfirmedPayment ==
    /\ [][boosts' # boosts =>
            \E i \in 1..Len(monitors) :
                /\ Commits(i)
                /\ (now - monitors[i].start_time) * 60 < PaymentWindowMinutes
                /\ \E p \in payments :
                      /\ p.amount = monitors[i].expected_amount
                      /\ p.time >= monitors[i].start_time
                      /\ (p.time - monitors[i].start_time) * 60 < PaymentWindowMinutes
                /\ Len(boosts') = Len(boosts) + 1
                /\ SubSeq(boosts', 1, Len(boosts)) = boosts
                /\ boosts'[Len(boosts')].paid_amount = monitors[i].expected_amount]_vars
    /\ [][\A i \in 1..Len(monitors) :
            (/\ monitors[i].pc = "poll"
             /\ (now - monitors[i].start_time) * 60 >= PaymentWindowMinutes
             /\ monitors'[i] # monitors[i])
            => /\ boosts' = boosts
               /\ monitors'[i].pc = "done"
               /\ ~monitors'[i].created
               /\ "timeout" \in monitors'[i].sent]_vars

\* reached: one monitor has committed a Boost and another has timed out
C32_Witness ==
    /\ Len(boosts) >= 1
    /\ \E i \in 1..Len(monitors) : monitors[i].created
    /\ \E i \in 1..Len(monitors) :
          monitors[i].pc = "done" /\ "timeout" \in monitors[i].sent

\* C33: the only monitor there is, polling for a user who no longer has a
\* session (so the session was removed by boost_cancel), commits no Boost.
C33_CancelledMonitorCreatesNothing ==
    [][\A i \in 1..Len(monitors) :
          (/\ Len(monitors) = 1
           /\ monitors[i].pc = "poll"
           /\ boost_sessions[monitors[i].user_id] = 0)
          => (boosts' = boosts /\ ~Commits(i))]_vars

\* C35: there are never more Boost rows than payments to the boost wallet.
C35_OneBoostPerPayment ==
    Len(boosts) <= Cardinality(payments)

\* C36: every Boost row has the duration and the price of one tier.
C36_BoostIsATier ==
    \A i \in 1..Len(boosts) :
        \E k \in DOMAIN BOOST_OPTIONS :
            /\ boosts[i].duration_hours = BOOST_OPTIONS[k].duration
            /\ boosts[i].paid_amount = BOOST_OPTIONS[k].price

\* C37: a monitor that called send_message with the error notice has
\* committed no Boost.
C37_ErrorNoticeOnlyWithoutBoost ==
    \A i \in 1..Len(monitors) :
        "error" \in monitors[i].sent => ~monitors[i].created

\* C38: the Buy handed to the callback has amount_usd = amount_sui * sui_price.
C38_BuyRateConsistent ==
    last.dispatched =>
        last.buy.amount_usd = last.buy.amount_sui * last.buy.sui_price

\* the prices of the seven tiers
TierPrices == {15, 20, 27, 45, 80, 110, 180}

\* calculate_boost_multiplier is strictly increasing over the tier prices
MultiplierStrictlyIncreasing ==
    \A a, b \in TierPrices :
        a < b => calculate_boost_multiplier(a) < calculate_boost_multiplier(b)

\* C34: of two tokens of a published summary that are boosted, the one whose
\* stored Boost has the higher paid amount gets the higher boost contribution
\* to its rank.
C34_ContributionIncreasesWithPaidAmount ==
    \A i, j \in 1..Len(lb.board) :
        (/\ BoostScore(lb.board[i].address, lb.at) > 0
         /\ BoostScore(lb.board[i].address, lb.at)
               < BoostScore(lb.board[j].address, lb.at))
        => RankContribution(lb.board[i]) < RankContribution(lb.board[j])

====
